---------------------------- MODULE Spec2Model ----------------------------
(***************************************************************************)
(* Model of scripts/collect_news.py (class LLMSummarizer): the keyword     *)
(* classifier, the extractive and abstractive summary paths, the batch     *)
(* loop of generate_daily_summary, the e-mail rendering and the marking of *)
(* processed articles.                                                     *)
(*                                                                         *)
(* A Python str is a sequence of one-character strings.  None and a bytes  *)
(* BLOB column are one-element sequences whose element is no character, so *)
(* that they differ from every str.                                        *)
(***************************************************************************)
EXTENDS Integers, Sequences, FiniteSets, TLC

VARIABLES
    pc,          \* which statement of the caller runs next
    arg,         \* arguments of a function called on its own
    res,         \* its return value
    summarizer,  \* self.summarizer: "None" or "pipeline"
    setupCalls,  \* how many times setup_model has run
    db,          \* the rows of table articles, by rowid
    articles,    \* generate_daily_summary: the fetched rows
    i,           \* generate_daily_summary: position of the loop, from 1
    categories,  \* generate_daily_summary: the five sections
    email,       \* generate_daily_summary: email_content
    saved,       \* data/summary_<today>.json: <<>> or one report
    log,         \* what happened to each article of the current batch
    lastMark     \* how the last mark_processed ended: "none", "ok", "error"

fnVars == <<arg, res>>

runVars == <<summarizer, setupCalls, db, articles, i, categories, email, saved, log, lastMark>>

vars == <<pc, arg, res, summarizer, setupCalls, db, articles, i, categories, email,
          saved, log, lastMark>>

None == <<"None">>
Blob == <<"Blob">>

-----------------------------------------------------------------------------
(* str primitives *)

UpperChars == <<"A", "B", "C", "D", "E", "F", "G", "H", "I", "J", "K", "L", "M", "N", "O", "P", "Q", "R",
        "S", "T", "U", "V", "W", "X", "Y", "Z">>
LowerChars == <<"a", "b", "c", "d", "e", "f", "g", "h", "i", "j", "k", "l", "m", "n", "o", "p", "q", "r",
        "s", "t", "u", "v", "w", "x", "y", "z">>
Digits == {"0", "1", "2", "3", "4", "5", "6", "7", "8", "9"}

\* the whitespace of str.strip() and of the regex class \s
Whitespace == {" ", "\t", "\n"}

Range(s) == {s[j] : j \in 1..Len(s)}

ToLower == [c \in Range(UpperChars) |-> LowerChars[CHOOSE j \in 1..26 : UpperChars[j] = c]]

ToUpper == [c \in Range(LowerChars) |-> UpperChars[CHOOSE j \in 1..26 : LowerChars[j] = c]]

\* str.lower() on one character
LowerChar(c) == IF c \in DOMAIN ToLower THEN ToLower[c] ELSE c

\* str.upper() on one character
UpperChar(c) == IF c \in DOMAIN ToUpper THEN ToUpper[c] ELSE c

lower(s) == [j \in 1..Len(s) |-> LowerChar(s[j])]

upper(s) == [j \in 1..Len(s) |-> UpperChar(s[j])]

\* Python: word in text
Contains(text, word) ==
    \E j \in 1..(Len(text) - Len(word) + 1) :
        \A h \in 1..Len(word) : text[j + h - 1] = word[h]

\* str.strip()
strip(s) ==
    LET keep == {j \in 1..Len(s) : s[j] \notin Whitespace}
    IN  IF keep = {} THEN <<>>
        ELSE SubSeq(s, CHOOSE j \in keep : \A k \in keep : j <= k,
                       CHOOSE j \in keep : \A k \in keep : j >= k)

\* Python truthiness of a str-or-None value
Truthy(x) == x # None /\ x # <<>>

\* Python: x or y
Or(x, y) == IF Truthy(x) THEN x ELSE y

-----------------------------------------------------------------------------
(* categorize_content *)

research_words == <<
    <<"p", "a", "p", "e", "r">>, <<"r", "e", "s", "e", "a", "r", "c", "h">>, <<"s", "t", "u", "d", "y">>,
        <<"a", "r", "x", "i", "v">>, <<"a", "l", "g", "o", "r", "i", "t", "h", "m">>, <<"m", "o", "d", "e",
        "l">>,
    <<"m", "e", "t", "h", "o", "d">>, <<"a", "p", "p", "r", "o", "a", "c", "h">>, <<"f", "r", "a", "m", "e",
        "w", "o", "r", "k">>, <<"e", "v", "a", "l", "u", "a", "t", "i", "o", "n">>, <<"e", "x", "p", "e",
        "r", "i", "m", "e", "n", "t">>,
    <<"a", "n", "a", "l", "y", "s", "i", "s">>, <<"d", "a", "t", "a", "s", "e", "t">>, <<"b", "e", "n", "c",
        "h", "m", "a", "r", "k">>, <<"n", "e", "u", "r", "a", "l">>, <<"l", "e", "a", "r", "n", "i", "n",
        "g">> >>

business_words == <<
    <<"f", "u", "n", "d", "i", "n", "g">>, <<"s", "t", "a", "r", "t", "u", "p">>, <<"c", "o", "m", "p", "a",
        "n", "y">>, <<"i", "n", "v", "e", "s", "t", "m", "e", "n", "t">>, <<"a", "c", "q", "u", "i", "s",
        "i", "t", "i", "o", "n">>,
    <<"p", "a", "r", "t", "n", "e", "r", "s", "h", "i", "p">>, <<"p", "r", "o", "d", "u", "c", "t">>, <<"l",
        "a", "u", "n", "c", "h">>, <<"m", "a", "r", "k", "e", "t">>, <<"r", "e", "v", "e", "n", "u", "e">>,
    <<"c", "e", "o">>, <<"a", "n", "n", "o", "u", "n", "c", "e", "m", "e", "n", "t">>, <<"e", "n", "t", "e",
        "r", "p", "r", "i", "s", "e">>, <<"c", "o", "m", "m", "e", "r", "c", "i", "a", "l">> >>

tool_words == <<
    <<"t", "o", "o", "l">>, <<"o", "p", "e", "n", " ", "s", "o", "u", "r", "c", "e">>, <<"g", "i", "t", "h",
        "u", "b">>, <<"r", "e", "l", "e", "a", "s", "e">>, <<"l", "i", "b", "r", "a", "r", "y">>,
    <<"f", "r", "a", "m", "e", "w", "o", "r", "k">>, <<"a", "p", "i">>, <<"p", "l", "a", "t", "f", "o", "r",
        "m">>, <<"s", "o", "f", "t", "w", "a", "r", "e">>, <<"c", "o", "d", "e">>,
    <<"i", "m", "p", "l", "e", "m", "e", "n", "t", "a", "t", "i", "o", "n">>, <<"a", "v", "a", "i", "l", "a",
        "b", "l", "e">>, <<"d", "o", "w", "n", "l", "o", "a", "d">> >>

breakthrough_words == <<
    <<"b", "r", "e", "a", "k", "t", "h", "r", "o", "u", "g", "h">>, <<"m", "i", "l", "e", "s", "t", "o", "n",
        "e">>, <<"a", "c", "h", "i", "e", "v", "e", "m", "e", "n", "t">>, <<"r", "e", "c", "o", "r", "d">>,
    <<"f", "i", "r", "s", "t">>, <<"n", "e", "w">>, <<"r", "e", "v", "o", "l", "u", "t", "i", "o", "n", "a",
        "r", "y">>, <<"s", "i", "g", "n", "i", "f", "i", "c", "a", "n", "t">>, <<"m", "a", "j", "o", "r">>,
    <<"a", "d", "v", "a", "n", "c", "e">>, <<"i", "n", "n", "o", "v", "a", "t", "i", "o", "n">>, <<"d", "i",
        "s", "c", "o", "v", "e", "r", "y">> >>

\* sum(1 for word in words if word in text)
RECURSIVE Score(_, _)
Score(words, text) ==
    IF words = <<>> THEN 0
    ELSE (IF Contains(text, Head(words)) THEN 1 ELSE 0) + Score(Tail(words), text)

\* a scores dict that declares business before research
Scores_businessFirst(r, b, t, k) ==
    << [cat |-> "business",     score |-> 2 * b],
       [cat |-> "research",     score |-> 2 * r + k],
       [cat |-> "tools",        score |-> 2 * t],
       [cat |-> "breakthrough", score |-> 2 * k] >>

\* The scores dict, in declaration order.  Scores are kept in half points
\* (every score doubled) so that breakthrough_score * 0.5 stays an integer.
Scores(r, b, t, k) ==
    << [cat |-> "research",     score |-> 2 * r + k],
       [cat |-> "business",     score |-> 2 * b],
       [cat |-> "tools",        score |-> 2 * t],
       [cat |-> "breakthrough", score |-> 2 * k] >>

\* max(scores, key=scores.get): the first key, in dict order, whose value is
\* not exceeded by a later one
RECURSIVE MaxFrom(_, _, _)
MaxFrom(scores, best, j) ==
    IF j > Len(scores) THEN best
    ELSE MaxFrom(scores, IF scores[j].score > best.score THEN scores[j] ELSE best, j + 1)

MaxCategory(scores) == MaxFrom(scores, scores[1], 2)

BreakthroughThreshold == 2

\* the override tested after the zero check instead of before it
Resolve_overrideLate(r, b, t, k) ==
    LET max_category == MaxCategory(Scores(r, b, t, k))
    IN  IF max_category.score > 0
        THEN (IF k > BreakthroughThreshold THEN "breakthrough" ELSE max_category.cat)
        ELSE "news"

Resolve(r, b, t, k) ==
    LET max_category == MaxCategory(Scores(r, b, t, k))
    IN  IF k >= BreakthroughThreshold THEN "breakthrough"
        ELSE IF max_category.score > 0 THEN max_category.cat ELSE "news"

categorize_content(title, content) ==
    LET text == lower(title \o <<" ">> \o Or(content, <<>>))
    IN  Resolve(Score(research_words, text), Score(business_words, text),
                Score(tool_words, text), Score(breakthrough_words, text))

-----------------------------------------------------------------------------
(* fallback_summarize *)

NoSummary == <<"N", "o", " ", "s", "u", "m", "m", "a", "r", "y", " ", "a", "v", "a", "i", "l", "a", "b", "l",
        "e", ".">>

BriefNotAvailable == <<"B", "r", "i", "e", "f", " ", "s", "u", "m", "m", "a", "r", "y", " ", "n", "o", "t",
        " ", "a", "v", "a", "i", "l", "a", "b", "l", "e", ".">>

Ellipsis == <<".", ".", ".">>

\* the character class [.!?]
Terminators == {".", "!", "?"}

\* shortest stripped sentence that is dropped
MinSentenceLen == 10

\* fallback_summarize's max_sentences default
MaxSentences == 2

\* longest summary that is not cut
MaxSummaryLen == 250

Min(S) == CHOOSE x \in S : \A y \in S : x <= y

\* re.split(r'[.!?]+', text) from position start on: the piece up to the next
\* run of terminators, then the pieces after that run; the empty pieces before
\* a leading and after a trailing run are included
RECURSIVE SplitFrom(_, _)
SplitFrom(text, start) ==
    LET terms == {j \in start..Len(text) : text[j] \in Terminators}
    IN  IF terms = {} THEN << SubSeq(text, start, Len(text)) >>
        ELSE LET first == Min(terms)
                 others == {j \in first..Len(text) : text[j] \notin Terminators}
                 next == IF others = {} THEN Len(text) + 1 ELSE Min(others)
             IN  << SubSeq(text, start, first - 1) >> \o SplitFrom(text, next)

SplitSentences(text) == SplitFrom(text, 1)

\* [s.strip() for s in sentences if s.strip() and len(s.strip()) > minlen]
RECURSIVE KeepSentences(_, _)
KeepSentences(sentences, minlen) ==
    IF sentences = <<>> THEN <<>>
    ELSE LET s == strip(Head(sentences))
             rest == KeepSentences(Tail(sentences), minlen)
         IN  IF s # <<>> /\ Len(s) > minlen THEN <<s>> \o rest ELSE rest

\* seq[:n]
Prefix(seq, n) == SubSeq(seq, 1, IF n < Len(seq) THEN n ELSE Len(seq))

RECURSIVE JoinWith(_, _)
\* sep.join(seqs)
JoinWith(seqs, sep) ==
    IF seqs = <<>> THEN <<>>
    ELSE IF Len(seqs) = 1 THEN seqs[1]
    ELSE seqs[1] \o sep \o JoinWith(Tail(seqs), sep)

\* the sentence filter off by one: a stripped sentence of exactly 10 characters kept
SummaryOf_keepTen(text) ==
    LET sentences == KeepSentences(SplitSentences(text), MinSentenceLen - 1)
        summary == JoinWith(Prefix(sentences, MaxSentences), <<".", " ">>)
    IN  IF Len(summary) > MaxSummaryLen
        THEN Prefix(summary, MaxSummaryLen) \o Ellipsis
        ELSE summary

\* the value of `summary` at the return statement, for a truthy text
SummaryOf(text) ==
    LET sentences == KeepSentences(SplitSentences(text), MinSentenceLen)
        summary == JoinWith(Prefix(sentences, MaxSentences), <<".", " ">>)
    IN  IF Len(summary) > MaxSummaryLen
        THEN Prefix(summary, MaxSummaryLen) \o Ellipsis
        ELSE summary

fallback_summarize(text) ==
    IF ~Truthy(text) THEN NoSummary
    ELSE LET summary == SummaryOf(text)
         IN  IF summary # <<>> THEN summary ELSE BriefNotAvailable

-----------------------------------------------------------------------------
(* clean_text *)

\* the characters the URL pattern repeats after "://": [a-zA-Z], [0-9],
\* [$-_@.&+] (the range from '$' to '_' and four more), [!*\\(\\),], and the
\* characters of a %XX escape
UrlChars ==
    Range(LowerChars) \cup Range(UpperChars) \cup Digits \cup
    { "$", "%", "&", "'", "(", ")", "*", "+", ",", "-", ".", "/", ":", ";", "<",
      "=", ">", "?", "@", "[", "\\", "]", "^", "_", "!" }

\* longest text clean_text leaves uncut
MaxCleanLen == 3000

Indices(s) == [j \in 1..Len(s) |-> j]

\* re.sub(r'\s+', ' ', text)
CollapseWhitespace(text) ==
    LET first == SelectSeq(Indices(text),
                     LAMBDA j : ~(text[j] \in Whitespace /\ j > 1 /\ text[j - 1] \in Whitespace))
    IN  [h \in 1..Len(first) |->
            IF text[first[h]] \in Whitespace THEN " " ELSE text[first[h]]]

StartsWithAt(text, j, word) ==
    /\ j + Len(word) - 1 <= Len(text)
    /\ \A h \in 1..Len(word) : text[j + h - 1] = word[h]

\* where the URL characters of a match of http[s]?://(...)+ at j begin; 0 if the
\* pattern does not match at j
UrlBodyAt(text, j) ==
    LET body == IF StartsWithAt(text, j, <<"h", "t", "t", "p", "s", ":", "/", "/">>) THEN j + 8
                ELSE IF StartsWithAt(text, j, <<"h", "t", "t", "p", ":", "/", "/">>) THEN j + 7
                ELSE 0
    IN  IF body > 0 /\ body <= Len(text) /\ text[body] \in UrlChars THEN body ELSE 0

\* re.sub(url pattern, '', text) from position start on: the leftmost match is
\* dropped with the longest run of URL characters, and the search goes on after it
RECURSIVE RemoveUrlsFrom(_, _)
RemoveUrlsFrom(text, start) ==
    LET hits == {j \in start..Len(text) : UrlBodyAt(text, j) > 0}
    IN  IF hits = {} THEN SubSeq(text, start, Len(text))
        ELSE LET at == Min(hits)
                 stops == {j \in UrlBodyAt(text, at)..Len(text) : text[j] \notin UrlChars}
                 next == IF stops = {} THEN Len(text) + 1 ELSE Min(stops)
             IN  SubSeq(text, start, at - 1) \o RemoveUrlsFrom(text, next)

clean_text(text) ==
    IF ~Truthy(text) THEN <<>>
    ELSE LET t == RemoveUrlsFrom(CollapseWhitespace(text), 1)
         IN  strip(IF Len(t) > MaxCleanLen THEN Prefix(t, MaxCleanLen) \o Ellipsis ELSE t)

-----------------------------------------------------------------------------
(* enhance_summary *)

MarkerWords == << <<"r", "e", "s", "e", "a", "r", "c", "h">>, <<"s", "t", "u", "d", "y">>, <<"p", "a", "p",
        "e", "r">>, <<"m", "e", "t", "h", "o", "d">> >>

\* the empty model output passed on instead of replaced
enhance_summary_noGuard(summary, summary_type) ==
    LET tagged == IF summary_type = "research"
                     /\ \A j \in 1..Len(MarkerWords) : ~Contains(lower(summary), MarkerWords[j])
                  THEN <<"R", "e", "s", "e", "a", "r", "c", "h", ":", " ">> \o summary
                  ELSE summary
        capital == IF Len(tagged) > 1
                   THEN <<UpperChar(tagged[1])>> \o Tail(tagged)
                   ELSE upper(tagged)
    IN  IF capital # <<>> /\ capital[Len(capital)] \notin Terminators
        THEN capital \o <<".">>
        ELSE capital

enhance_summary(summary, summary_type) ==
    IF ~Truthy(summary) THEN NoSummary
    ELSE LET tagged == IF summary_type = "research"
                          /\ \A j \in 1..Len(MarkerWords) :
                                 ~Contains(lower(summary), MarkerWords[j])
                       THEN <<"R", "e", "s", "e", "a", "r", "c", "h", ":", " ">> \o summary
                       ELSE summary
             capital == IF Len(tagged) > 1
                        THEN <<UpperChar(tagged[1])>> \o Tail(tagged)
                        ELSE upper(tagged)
         IN  IF capital # <<>> /\ capital[Len(capital)] \notin Terminators
             THEN capital \o <<".">>
             ELSE capital

-----------------------------------------------------------------------------
(* ai_summarize *)

\* shortest stripped text the model is asked about
MinModelLen == 50

\* What one call of self.summarizer does: it raises, or it returns a text.
ModelOutcomes ==
    { [raises |-> TRUE, text |-> <<>>],
      [raises |-> FALSE, text |-> <<>>],
      [raises |-> FALSE, text |-> <<"n", "e", "w", " ", "r", "e", "s", "u", "l", "t", "s", " ", "s", "h",
        "o", "w", " ", "g", "a", "i", "n", "s">>] }

\* the length test made on the cleaned text
UsesModel_cleaned(model, text) ==
    ~(model = "None" \/ ~Truthy(text) \/ Len(clean_text(text)) < MinModelLen)

\* the negation of the guard of the first return statement
UsesModel(model, text) ==
    ~(model = "None" \/ ~Truthy(text) \/ Len(strip(text)) < MinModelLen)

\* the summary, whether the model was called and with what, and whether it raised
ai_summarize(model, text, summary_type, outcome) ==
    IF ~UsesModel(model, text)
    THEN [summary |-> fallback_summarize(text), called |-> FALSE, raised |-> FALSE,
          input |-> <<>>]
    ELSE IF outcome.raises
    THEN [summary |-> fallback_summarize(text), called |-> TRUE, raised |-> TRUE,
          input |-> clean_text(text)]
    ELSE [summary |-> enhance_summary(outcome.text, summary_type), called |-> TRUE,
          raised |-> FALSE, input |-> clean_text(text)]

\* self.summarizer after a call of the model that raised: left as it was
SummarizerAfter_disable(model, raised) == IF raised THEN "None" ELSE model

\* self.summarizer after ai_summarize: no branch assigns it
SummarizerAfter(model, raised) == model

\* setup_model run again by an article that finds no model
SetupCallsAfter_retry(model, calls) == IF model = "None" THEN calls + 1 ELSE calls

\* the number of setup_model runs after ai_summarize: only __init__ calls it
SetupCallsAfter(model, calls) == calls

-----------------------------------------------------------------------------
(* the body of the loop of generate_daily_summary *)

IsStr(x) == x # None /\ x # Blob

\* a row of table articles
Row(id, title, content, url) ==
    << id, title, content, <<"f", "e", "e", "d">> \o <<ToString(id)>>, url, id, <<"a", "i">>, FALSE >>

RowLen == 8

\* One pass of the try block on a row: failed tells whether the except branch
\* ran; else entry is the article_entry appended to categories[cat].
ProcessRow(model, article, outcome) ==
    LET none == [failed |-> TRUE, called |-> FALSE, raised |-> FALSE, text |-> <<>>,
                 input |-> <<>>, entry |-> <<>>]
    IN  IF Len(article) # RowLen THEN none          \* the unpacking raises
        ELSE LET title == article[2]
                 content == article[3]
             IN  IF ~IsStr(title) THEN none         \* title[:50] raises
                 ELSE IF ~IsStr(Or(content, <<>>)) THEN none   \* str + bytes raises
                 ELSE LET cat == categorize_content(title, Or(content, <<>>))
                          summary_type == IF cat \in {"research", "breakthrough"}
                                          THEN "research" ELSE "news"
                          text == Or(content, title)
                          s == ai_summarize(model, text, summary_type, outcome)
                      IN  [failed |-> FALSE, called |-> s.called, raised |-> s.raised,
                           text |-> text, input |-> s.input,
                           entry |-> << [title |-> title,
                                         summary |-> s.summary,
                                         source |-> article[4],
                                         url |-> Or(article[5], <<>>),
                                         category_detected |-> cat,
                                         summary_type |-> summary_type] >>]

\* an exception in one article ends the loop
NextArticle_abort(idx, failed, n) == IF failed THEN n + 1 ELSE idx + 1

\* the loop position after an article: the except branch only prints
NextArticle(idx, failed, n) == idx + 1

-----------------------------------------------------------------------------
(* format_enhanced_email *)

BreakthroughShown == 2
ResearchShown == 3
BusinessShown == 3
NewsShown == 3

\* sum(len(articles) for articles in categories.values())
Total(cats) ==
    Len(cats.breakthrough) + Len(cats.research) + Len(cats.business)
        + Len(cats.tools) + Len(cats.news)

\* the three lines written for one item
ItemLines(cat, item) ==
    << [kind |-> "item", section |-> cat, title |-> item.title,
        summary |-> item.summary, source |-> item.source] >>

RECURSIVE ItemsLines(_, _)
ItemsLines(cat, items) ==
    IF items = <<>> THEN <<>>
    ELSE ItemLines(cat, Head(items)) \o ItemsLines(cat, Tail(items))

\* one "if categories[cat]:" block: the header with len(categories[cat]), then
\* the items of the slice the block loops over
SectionLines(cats, cat, shown) ==
    IF cats[cat] = <<>> THEN <<>>
    ELSE << [kind |-> "header", section |-> cat, count |-> Len(cats[cat])] >>
             \o ItemsLines(cat, shown)

\* the breakthrough slice one item too long
BreakthroughSlice_three(items) == Prefix(items, BreakthroughShown + 1)

\* categories['breakthrough'][:2]
BreakthroughSlice(items) == Prefix(items, BreakthroughShown)

\* The e-mail as the sequence of its parts: the greeting with the total, the
\* section blocks in the order they are appended, the footer with the total.
format_enhanced_email(cats) ==
    << [kind |-> "greeting", total |-> Total(cats)] >>
    \o SectionLines(cats, "breakthrough", BreakthroughSlice(cats.breakthrough))
    \o SectionLines(cats, "research", Prefix(cats.research, ResearchShown))
    \o SectionLines(cats, "business", Prefix(cats.business, BusinessShown))
    \o SectionLines(cats, "tools", cats.tools)
    \o SectionLines(cats, "news", Prefix(cats.news, NewsShown))
    \o << [kind |-> "footer", total |-> Total(cats)] >>

-----------------------------------------------------------------------------
(* get_recent_articles, mark_processed *)

FetchLimit == 20

\* rows by published_date, latest first
RECURSIVE ByDateDesc(_)
ByDateDesc(rows) ==
    IF rows = <<>> THEN <<>>
    ELSE LET top == CHOOSE j \in 1..Len(rows) : \A h \in 1..Len(rows) : rows[h][6] <= rows[j][6]
         IN  << rows[top] >> \o ByDateDesc(SubSeq(rows, 1, top - 1) \o SubSeq(rows, top + 1, Len(rows)))

\* SELECT * FROM articles WHERE processed = FALSE ORDER BY published_date DESC LIMIT 20
SelectRecent(table) ==
    Prefix(ByDateDesc(SelectSeq(table, LAMBDA row : row[8] = FALSE)), FetchLimit)

\* only the rows that made it into a section are marked
MarkedIds_stored(rows, cats) ==
    {row[1] : row \in {r \in Range(rows) :
        \E c \in DOMAIN cats : \E j \in 1..Len(cats[c]) : cats[c][j].source = r[4]}}

\* the ids mark_processed updates: article[0] of every fetched row
MarkedIds(rows, cats) == {rows[j][1] : j \in 1..Len(rows)}

\* UPDATE articles SET processed = TRUE WHERE id = ?, for each id, committed
UpdateProcessed(table, ids) ==
    [j \in 1..Len(table) |->
        IF table[j][1] \in ids THEN [table[j] EXCEPT ![8] = TRUE] ELSE table[j]]

-----------------------------------------------------------------------------
(* The rows a run may find: up to MaxArticles rows, each with one of a few   *)
(* titles and contents; published_date grows with the rowid.               *)

MaxArticles == 2

Padding == [j \in 1..40 |-> " "]

RowShapes == {
    \* a long text of three sentences
    [title |-> <<"N", "e", "w", " ", "A", "I", " ", "B", "r", "e", "a", "k", "t", "h", "r", "o", "u", "g",
        "h", " ", "A", "c", "h", "i", "e", "v", "e", "d", " ", "i", "n", " ", "L", "e", "a", "r", "n", "i",
        "n", "g", " ", "R", "e", "s", "e", "a", "r", "c", "h">>,
     content |-> <<"S", "c", "i", "e", "n", "t", "i", "s", "t", "s", " ", "a", "n", "n", "o", "u", "n", "c",
        "e", "d", " ", "a", " ", "m", "a", "j", "o", "r", " ", "m", "i", "l", "e", "s", "t", "o", "n", "e",
        ".", " ", "T", "h", "e", " ", "n", "e", "w", " ", "m", "e", "t", "h", "o", "d", " ", "i", "m", "p",
        "r", "o", "v", "e", "s", " ", "a", "c", "c", "u", "r", "a", "c", "y", ".", " ", "T", "h", "i", "s",
        " ", "i", "s", " ", "a", " ", "f", "i", "r", "s", "t", " ", "f", "o", "r", " ", "t", "h", "e", " ",
        "f", "i", "e", "l", "d", ".">>,
     url |-> <<"h", "t", "t", "p", "s", ":", "/", "/", "e", "x", "a", "m", "p", "l", "e", ".", "o", "r", "g",
        "/", "a">>],
    \* no content: the title is summarized
    [title |-> <<"H", "i", " ", "t", "h", "e", "r", "e", ".">>, content |-> <<>>, url |-> None],
    \* a NULL title
    [title |-> None, content |-> <<"S", "t", "a", "r", "t", "u", "p", " ", "f", "u", "n", "d", "i", "n", "g",
        " ", "r", "o", "u", "n", "d", " ", "c", "l", "o", "s", "e", "d", ".">>, url |-> None],
    \* a BLOB content
    [title |-> <<"M", "o", "d", "e", "l", " ", "w", "e", "i", "g", "h", "t", "s">>, content |-> Blob,
        url |-> None],
    \* a text long only by its whitespace
    [title |-> <<"Q", "u", "a", "r", "t", "e", "r", "l", "y", " ", "u", "p", "d", "a", "t", "e">>,
     content |-> <<"Q", "u", "a", "r", "t", "e", "r", "l", "y", " ", "u", "p", "d", "a", "t",
        "e">> \o Padding \o <<"\n", "\t", "t", "h", "e", " ", "e", "n", "d">>,
     url |-> None],
    \* a text long only by its URL
    [title |-> <<"T", "o", "o", "l", " ", "r", "e", "l", "e", "a", "s", "e">>,
     content |-> <<"C", "o", "d", "e", " ", "a", "t", " ", "h", "t", "t", "p", "s", ":", "/", "/", "g", "i",
        "t", "h", "u", "b", ".", "c", "o", "m", "/", "a", "c", "m", "e", "/", "t", "o", "o", "l", "-", "x",
        "/", "r", "e", "l", "e", "a", "s", "e", "s", "/", "l", "a", "t", "e", "s", "t", "/", "d", "o", "w",
        "n", "l", "o", "a", "d", " ", "n", "o", "w">>,
     url |-> None] }

Tables ==
    UNION { { [j \in 1..n |-> Row(j, shapes[j].title, shapes[j].content, shapes[j].url)] :
                shapes \in [1..n -> RowShapes] } : n \in 0..MaxArticles }

EmptyCategories ==
    [breakthrough |-> <<>>, research |-> <<>>, business |-> <<>>, tools |-> <<>>,
     news |-> <<>>]

\* ProcessRow on every row a run may find, evaluated once
ProcessRowOf ==
    [model \in {"None", "pipeline"}, row \in UNION {Range(t) : t \in Tables},
     outcome \in ModelOutcomes |-> ProcessRow(model, row, outcome)]

\* the state of a summarizer that is not running generate_daily_summary
NoRun ==
    /\ articles = <<>>
    /\ i = 0
    /\ categories = EmptyCategories
    /\ email = <<>>
    /\ log = <<>>

\* After __init__: setup_model has run once and has loaded the pipeline or not.
Init ==
    /\ pc = "idle"
    /\ arg = <<>>
    /\ res = <<>>
    /\ summarizer \in {"None", "pipeline"}
    /\ setupCalls = 1
    /\ db \in Tables
    /\ saved = <<>>
    /\ lastMark = "none"
    /\ NoRun

\* articles = self.get_recent_articles(): the rows, or [] when the store fails
GetRecentArticles ==
    /\ pc = "idle"
    /\ \E fetched \in {SelectRecent(db), <<>>} :
          /\ articles' = fetched
          /\ pc' = IF fetched = <<>> THEN "idle" ELSE "loop"
    /\ i' = 1
    /\ categories' = EmptyCategories
    /\ email' = <<>>
    /\ log' = <<>>
    /\ lastMark' = "none"
    /\ UNCHANGED <<fnVars, summarizer, setupCalls, db, saved>>

\* one iteration of "for i, article in enumerate(articles)"
ProcessArticle ==
    /\ pc = "loop"
    /\ i <= Len(articles)
    /\ \E outcome \in ModelOutcomes :
          LET r == ProcessRowOf[summarizer, articles[i], outcome]
          IN  /\ categories' =
                    IF r.failed THEN categories
                    ELSE [categories EXCEPT ![r.entry[1].category_detected] =
                                                Append(@, r.entry[1])]
              /\ log' = Append(log, r)
              /\ i' = NextArticle(i, r.failed, Len(articles))
              /\ summarizer' = SummarizerAfter(summarizer, r.raised)
              /\ setupCalls' = SetupCallsAfter(summarizer, setupCalls)
    /\ UNCHANGED <<pc, fnVars, db, articles, email, saved, lastMark>>

\* email_content = self.format_enhanced_email(categories)
FormatEmail ==
    /\ pc = "loop"
    /\ i > Len(articles)
    /\ email' = format_enhanced_email(categories)
    /\ pc' = "save"
    /\ UNCHANGED <<fnVars, summarizer, setupCalls, db, articles, i, categories, saved,
                   log, lastMark>>

\* the report the file is written from
Report(rows, cats, content) ==
    [categories |-> cats, email_content |-> content, total_articles |-> Len(rows),
     ai_processed |-> TRUE]

\* os.makedirs and json.dump: the file is written, or the error leaves
\* generate_daily_summary
SaveSummary ==
    /\ pc = "save"
    /\ \/ /\ saved' = << Report(articles, categories, email) >>
          /\ pc' = "mark"
       \/ /\ saved' = saved
          /\ pc' = "idle"
    /\ UNCHANGED <<fnVars, summarizer, setupCalls, db, articles, i, categories, email,
                   log, lastMark>>

\* self.mark_processed(articles): every update is committed, or the error is
\* caught before the commit
MarkProcessed ==
    /\ pc = "mark"
    /\ \/ /\ db' = UpdateProcessed(db, MarkedIds(articles, categories))
          /\ lastMark' = "ok"
       \/ /\ db' = db
          /\ lastMark' = "error"
    /\ pc' = "idle"
    /\ UNCHANGED <<fnVars, summarizer, setupCalls, articles, i, categories, email,
                   saved, log>>

Next ==
    \/ GetRecentArticles
    \/ ProcessArticle
    \/ FormatEmail
    \/ SaveSummary
    \/ MarkProcessed

Spec == Init /\ [][Next]_vars

\* the state of the summarizer while a function is called on its own
NoSummarizer ==
    /\ summarizer = "None"
    /\ setupCalls = 1
    /\ db = <<>>
    /\ saved = <<>>
    /\ lastMark = "none"
    /\ NoRun

-----------------------------------------------------------------------------
(* Inputs of the classifier: a title and a content made of up to MaxWords  *)
(* phrases separated by single spaces.                                     *)

MaxWords == 3

Titles == { <<"H", "e", "l", "l", "o">>, <<"N", "e", "w", " ", "S", "t", "u", "d", "y">> }

Phrases == {
    <<"P", "a", "p", "e", "r">>, <<"F", "r", "a", "m", "e", "w", "o", "r", "k">>, <<"c", "o", "m", "p", "a",
        "n", "y">>, <<"S", "t", "a", "r", "t", "u", "p", " ", "f", "u", "n", "d", "i", "n", "g", " ", "l",
        "a", "u", "n", "c", "h">>,
    <<"o", "p", "e", "n", " ", "s", "o", "u", "r", "c", "e", " ", "t", "o", "o", "l">>, <<"A", "P", "I">>,
        <<"n", "e", "w", "s">>, <<"M", "a", "j", "o", "r", " ", "B", "r", "e", "a", "k", "t", "h", "r", "o",
        "u", "g", "h">> }

PhraseLists == UNION {[1..n -> Phrases] : n \in 0..MaxWords}

Contents == {JoinWith(ps, <<" ">>) : ps \in PhraseLists}

InitCat ==
    /\ pc = "cat_call"
    /\ arg \in [title : Titles, content : Contents \cup {None}]
    /\ res = None
    /\ NoSummarizer

Categorize ==
    /\ pc = "cat_call"
    /\ res' = categorize_content(arg.title, arg.content)
    /\ pc' = "cat_done"
    /\ UNCHANGED <<arg, runVars>>

NextCat == Categorize

SpecCat == InitCat /\ [][NextCat]_vars

-----------------------------------------------------------------------------
(* Inputs of fallback_summarize: None, or up to MaxPieces pieces put one     *)
(* after the other.                                                        *)

MaxPieces == 3

LongSentence == [j \in 1..130 |-> "x"]

Pieces == {
    <<"S", "h", "o", "r", "t">>, <<"0", "1", "2", "3", "4", "5", "6", "7", "8", "9">>, <<"E", "l", "e", "v",
        "e", "n", " ", "c", "h", "a", "r">>, <<"A", " ", "f", "i", "r", "s", "t", " ", "l", "o", "n", "g",
        " ", "s", "e", "n", "t", "e", "n", "c", "e">>,
    <<".", " ">>, <<"!", "?">>, <<" ", " ">>, LongSentence }

RECURSIVE Concat(_)
Concat(seqs) == IF seqs = <<>> THEN <<>> ELSE Head(seqs) \o Concat(Tail(seqs))

PieceLists == UNION {[1..n -> Pieces] : n \in 0..MaxPieces}

Texts == {Concat(ps) : ps \in PieceLists}

InitFallback ==
    /\ pc = "fb_call"
    /\ arg \in [text : Texts \cup {None}]
    /\ res = None
    /\ NoSummarizer

FallbackSummarize ==
    /\ pc = "fb_call"
    /\ res' = fallback_summarize(arg.text)
    /\ pc' = "fb_done"
    /\ UNCHANGED <<arg, runVars>>

NextFallback == FallbackSummarize

SpecFallback == InitFallback /\ [][NextFallback]_vars

-----------------------------------------------------------------------------
(* Inputs of format_enhanced_email: sections of up to MaxSection numbered    *)
(* entries each.                                                           *)

MaxSection == 4

StoredEntry(cat, j) ==
    [title |-> <<"I", "t", "e", "m", " ">> \o <<ToString(j)>>, summary |-> BriefNotAvailable,
     source |-> <<"f", "e", "e", "d">> \o <<ToString(j)>>, url |-> <<>>, category_detected |-> cat,
     summary_type |-> IF cat \in {"research", "breakthrough"} THEN "research" ELSE "news"]

SectionOf(cat, n) == [j \in 1..n |-> StoredEntry(cat, j)]

InitFormat ==
    /\ pc = "fmt_call"
    /\ \E sizes \in [DOMAIN EmptyCategories -> 0..MaxSection] :
          arg = [categories |-> [c \in DOMAIN EmptyCategories |-> SectionOf(c, sizes[c])]]
    /\ res = <<>>
    /\ NoSummarizer

FormatEnhancedEmail ==
    /\ pc = "fmt_call"
    /\ res' = format_enhanced_email(arg.categories)
    /\ pc' = "fmt_done"
    /\ UNCHANGED <<arg, runVars>>

NextFormat == FormatEnhancedEmail

SpecFormat == InitFormat /\ [][NextFormat]_vars

-----------------------------------------------------------------------------
(* Properties of categorize_content, checked under SpecCat *)

Categories == {"breakthrough", "research", "business", "tools", "news"}

Priority == <<"research", "business", "tools", "breakthrough">>

\* the text the keywords are looked up in
CatText == lower(arg.title \o <<" ">> \o (IF arg.content = None THEN <<>> ELSE arg.content))

\* number of distinct keywords of a list found in a text
FoundIn(text, words) == Cardinality({j \in 1..Len(words) : Contains(text, words[j])})

Found(words) == FoundIn(CatText, words)

\* the four category scores in half points, as the resolution rule states them
RuleScore(c, r, b, t, k) ==
    CASE c = "research"     -> 2 * r + k
      [] c = "business"     -> 2 * b
      [] c = "tools"        -> 2 * t
      [] c = "breakthrough" -> 2 * k

RuleHighest(r, b, t, k) ==
    CHOOSE v \in {RuleScore(Priority[j], r, b, t, k) : j \in 1..4} :
        \A j \in 1..4 : RuleScore(Priority[j], r, b, t, k) <= v

ThreeStepOf(r, b, t, k) ==
    IF k >= 2 THEN "breakthrough"
    ELSE IF RuleHighest(r, b, t, k) = 0 THEN "news"
    ELSE Priority[CHOOSE j \in 1..4 :
            /\ RuleScore(Priority[j], r, b, t, k) = RuleHighest(r, b, t, k)
            /\ \A h \in 1..(j - 1) :
                   RuleScore(Priority[h], r, b, t, k) < RuleHighest(r, b, t, k)]

ThreeStep ==
    LET r == Found(research_words)
        b == Found(business_words)
        t == Found(tool_words)
        k == Found(breakthrough_words)
    IN  ThreeStepOf(r, b, t, k)

\* C1: categorize_content returns exactly the three-step resolution over the
\* four keyword counts (override at two breakthrough keywords, else the highest
\* score with ties to the earliest of research, business, tools, breakthrough,
\* else news at score 0), and the result is one of the five categories.
C1_ThreeStepResolution ==
    pc = "cat_done" => (res = ThreeStep /\ res \in Categories)

\* the override case: two breakthrough keywords against a higher business score
C1_Witness ==
    /\ pc = "cat_done"
    /\ Found(breakthrough_words) >= 2
    /\ 2 * Found(business_words) > 2 * Found(research_words) + Found(breakthrough_words)
    /\ res = "breakthrough"

OneResearchOneBusiness ==
    /\ Found(research_words) = 1
    /\ Found(business_words) = 1
    /\ Found(breakthrough_words) = 0

\* C2 as stated: one research keyword, one business keyword and no breakthrough
\* keyword give research, for any number of tools keywords.
C2_AnyTools ==
    (pc = "cat_done" /\ OneResearchOneBusiness) => res = "research"

\* C2 as amended: one research keyword, one business keyword, no breakthrough
\* keyword and at most one tools keyword give research; with two or more tools
\* keywords the result is tools.
C2_AtMostOneTool ==
    (pc = "cat_done" /\ OneResearchOneBusiness)
        => res = IF Found(tool_words) <= 1 THEN "research" ELSE "tools"

\* a three-way tie of research, business and tools, resolved to research
C2_Witness ==
    /\ pc = "cat_done"
    /\ OneResearchOneBusiness
    /\ Found(tool_words) = 1
    /\ res = "research"

-----------------------------------------------------------------------------
(* Properties of fallback_summarize, checked under SpecFallback *)

IsTerminator(text, j) == text[j] \in {".", "!", "?"}

\* where the fragments between runs of '.', '!' and '?' start
FragmentStarts(text) ==
    {a \in 1..Len(text) :
        ~IsTerminator(text, a) /\ (a = 1 \/ IsTerminator(text, a - 1))}

\* the fragment starting at a, trimmed
FragmentAt(text, a) ==
    LET b == CHOOSE e \in a..Len(text) :
                 /\ \A h \in a..e : ~IsTerminator(text, h)
                 /\ (e = Len(text) \/ IsTerminator(text, e + 1))
    IN  strip(SubSeq(text, a, b))

\* the starts of the fragments whose trimmed length is greater than 10
LongFragments(text) == {a \in FragmentStarts(text) : Len(FragmentAt(text, a)) > 10}

-----------------------------------------------------------------------------
(* Properties of format_enhanced_email, checked under SpecFormat *)

RenderOrder == <<"breakthrough", "research", "business", "tools", "news">>

\* the most items of a section the e-mail shows; tools has no cap
Cap(cat, size) ==
    CASE cat = "breakthrough" -> 2
      [] cat = "research"     -> 3
      [] cat = "business"     -> 3
      [] cat = "tools"        -> size
      [] cat = "news"         -> 3

Smaller(a, b) == IF a < b THEN a ELSE b

Headers(mail) == SelectSeq(mail, LAMBDA line : line.kind = "header")

ItemsShown(mail, cat) ==
    SelectSeq(mail, LAMBDA line : line.kind = "item" /\ line.section = cat)

Rendered(mail, cats) ==
    \* the headers are those of the non-empty sections, in the fixed order
    /\ [j \in 1..Len(Headers(mail)) |-> Headers(mail)[j].section]
           = SelectSeq(RenderOrder, LAMBDA c : cats[c] # <<>>)
    \* each header shows the stored size
    /\ \A j \in 1..Len(Headers(mail)) :
           Headers(mail)[j].count = Len(cats[Headers(mail)[j].section])
    \* each section shows its first min(size, cap) entries, in stored order
    /\ \A c \in DOMAIN cats :
           LET shown == ItemsShown(mail, c)
           IN  /\ Len(shown) = Smaller(Len(cats[c]), Cap(c, Len(cats[c])))
               /\ \A j \in 1..Len(shown) :
                      /\ shown[j].title = cats[c][j].title
                      /\ shown[j].summary = cats[c][j].summary
                      /\ shown[j].source = cats[c][j].source
    \* the items of a section follow its header
    /\ \A p \in 2..Len(mail) :
           mail[p].kind = "item" =>
               /\ mail[p - 1].kind \in {"header", "item"}
               /\ mail[p - 1].section = mail[p].section

\* C7: the e-mail shows the non-empty sections in the order breakthrough,
\* research, business, tools, news; each shows its first min(size, cap) entries
\* (caps 2, 3, 3, none, 3) under a header with the stored size; rendering leaves
\* the stored sections as they were.
C7_Rendering ==
    /\ [](pc = "fmt_done" => Rendered(res, arg.categories))
    /\ [][pc = "fmt_call" => arg'.categories = arg.categories]_vars

\* four breakthrough entries of which two are shown, four tools entries all
\* shown, and an empty section left out
C7_Witness ==
    /\ pc = "fmt_done"
    /\ Len(arg.categories.breakthrough) = 4
    /\ Len(ItemsShown(res, "breakthrough")) = 2
    /\ Len(ItemsShown(res, "tools")) = 4
    /\ arg.categories.research = <<>>
    /\ Len(Headers(res)) = 4

-----------------------------------------------------------------------------
(* Properties of a run of generate_daily_summary, checked under Spec *)

AllEntries ==
    UNION {Range(categories[c]) : c \in DOMAIN categories}

\* C3: every entry stored in a section has a non-empty summary, whether the
\* model is absent, raises, returns an empty text, or the content is empty.
C3_SummaryNonEmpty ==
    /\ \A e \in AllEntries : e.summary # <<>>
    /\ \A j \in 1..Len(saved) : \A c \in DOMAIN saved[j].categories :
           \A k \in 1..Len(saved[j].categories[c]) : saved[j].categories[c][k].summary # <<>>

\* the model returned an empty text and the entry holds a sentinel; another
\* entry was made without the model
C3_Witness ==
    /\ \E j \in 1..Len(log) :
           /\ log[j].called /\ ~log[j].raised
           /\ log[j].entry[1].summary = NoSummary
           /\ log[j].entry[1] \in AllEntries
    /\ \E e \in AllEntries : e.summary = BriefNotAvailable

\* a row whose processing raises: a NULL title or a BLOB content
Fails(row) == row[2] = None \/ row[2] = Blob \/ row[3] = Blob

\* the articles the loop is done with
Handled == IF pc = "loop" THEN i - 1 ELSE Len(articles)

\* where the entries built from articles[j] are stored
PlacesOf(j) ==
    {<<c, k>> \in (DOMAIN categories) \X (1..(MaxArticles + 1)) :
        k <= Len(categories[c]) /\ categories[c][k].source = articles[j][4]}

\* C5: an article whose processing raises is skipped; every other article of
\* the batch is stored exactly once, in one section, the sections keep the
\* processing order, and the loop gets to the end of the batch.
C5_PartialFailure ==
    /\ \A j \in 1..Len(articles) :
           Cardinality(PlacesOf(j)) = IF j <= Handled /\ ~Fails(articles[j]) THEN 1 ELSE 0
    /\ \A c \in DOMAIN categories : \A k \in 1..Len(categories[c]) :
           /\ \E j \in 1..Len(articles) : <<c, k>> \in PlacesOf(j)
           /\ \A h \in 1..(k - 1) :
                  \E j1, j2 \in 1..Len(articles) :
                      j1 < j2 /\ <<c, h>> \in PlacesOf(j1) /\ <<c, k>> \in PlacesOf(j2)
    /\ pc \in {"save", "mark"} => (i = Len(articles) + 1 /\ Len(log) = Len(articles))

\* the first article raised and the second was stored
C5_Witness ==
    /\ pc = "save"
    /\ Len(articles) >= 2
    /\ Fails(articles[1])
    /\ PlacesOf(2) # {}

SectionSizes(cats) ==
    LET size(c) == Len(cats[c])
    IN  size("breakthrough") + size("research") + size("business") + size("tools")
            + size("news")

\* C6: the total recorded in the saved report is the sum of the sizes of its
\* five sections.
C6_TotalIsSectionSum ==
    \A j \in 1..Len(saved) : saved[j].total_articles = SectionSizes(saved[j].categories)

\* the text the model would be asked about
LastText == log[Len(log)].text

LastSummary == log[Len(log)].entry[1].summary

\* C8 as stated: the model is called exactly when it is available and the
\* cleaned text has at least 50 characters; otherwise, and when the call
\* raises, the summary is the extractive summary of the raw text.
C8_CleanedLength ==
    (log # <<>> /\ ~log[Len(log)].failed) =>
        /\ log[Len(log)].called
               <=> (summarizer = "pipeline" /\ Len(clean_text(LastText)) >= 50)
        /\ (~log[Len(log)].called \/ log[Len(log)].raised)
               => LastSummary = fallback_summarize(LastText)

\* C8 as amended: the model is called exactly when it is available and the raw
\* text, stripped of leading and trailing whitespace only, has at least 50
\* characters, and it is then given the cleaned text; otherwise, and when the
\* call raises, the summary is the extractive summary of the raw text.
C8_StrippedLength ==
    (log # <<>> /\ ~log[Len(log)].failed) =>
        /\ log[Len(log)].called
               <=> (summarizer = "pipeline" /\ Len(strip(LastText)) >= 50)
        /\ log[Len(log)].called => log[Len(log)].input = clean_text(LastText)
        /\ (~log[Len(log)].called \/ log[Len(log)].raised)
               => LastSummary = fallback_summarize(LastText)

\* the model was called on a text that is long only before cleaning, it raised,
\* and the summary is the extractive one
C8_Witness ==
    /\ log # <<>>
    /\ log[Len(log)].called
    /\ log[Len(log)].raised
    /\ Len(clean_text(LastText)) < 50
    /\ LastSummary = fallback_summarize(LastText)

\* C9: setup_model runs once; the availability flag never changes afterwards,
\* so a failed initialization is never retried and the model is then never
\* called; a call that raises leaves the flag, and the model is called again
\* for the later articles with a long enough text.
C9_InitOnce ==
    /\ [][summarizer' = summarizer /\ setupCalls' = setupCalls]_vars
    /\ [](setupCalls <= 1)
    /\ [](summarizer = "None" => \A j \in 1..Len(log) : ~log[j].called)
    /\ [](\A j, k \in 1..Len(log) :
            (j < k /\ log[j].raised /\ ~log[k].failed /\ Len(strip(log[k].text)) >= 50)
                => log[k].called)

\* a call of the model raised and the next article called the model again
C9_Witness ==
    \E j, k \in 1..Len(log) : j < k /\ log[j].raised /\ log[k].called

IsProcessed(table, id) == \E j \in 1..Len(table) : table[j][1] = id /\ table[j][8] = TRUE

\* C10: when mark_processed ends without a store error, every fetched article
\* is marked processed, the skipped ones included; the table changes only in
\* mark_processed, after the report of the batch was built and saved; an empty
\* batch changes nothing.
C10_MarkAfterSave ==
    [][ /\ (pc = "mark" /\ lastMark' = "ok")
            => \A j \in 1..Len(articles) : IsProcessed(db', articles[j][1])
        /\ db' # db
            => /\ pc = "mark"
               /\ articles # <<>>
               /\ email # <<>>
               /\ saved # <<>>
               /\ saved[1].categories = categories
               /\ saved[1].email_content = email ]_vars

\* a skipped article is marked processed
C10_Witness ==
    /\ pc = "idle"
    /\ lastMark = "ok"
    /\ \E j \in 1..Len(articles) :
           /\ log[j].failed
           /\ PlacesOf(j) = {}
           /\ IsProcessed(db, articles[j][1])

=============================================================================
